---- MODULE Spec2Model ----
(***************************************************************************)
(* Crypto Foxes API (src/main.py, src/schemas.py).                         *)
(*                                                                         *)
(* Units.  Probabilities are fixed-point numbers in units of 1/Scale, so   *)
(* 0.75 is 7500.  A bonus_chance is kept in hundredths (0.05 is 5) and is  *)
(* converted to probability units where weighted_rarity subtracts it.      *)
(* price_eth is kept in thousandths of an ETH (0.055 is 55).               *)
(***************************************************************************)
EXTENDS Integers, Sequences, FiniteSets, TLC

VARIABLES db, bundle, fox, minttransaction, DEFAULT_BUNDLES, clock,
          pc, req, bonus, i, minted, response, calls,
          r, adjusted, rarity

vars == <<db, bundle, fox, minttransaction, DEFAULT_BUNDLES, clock,
          pc, req, bonus, i, minted, response, calls,
          r, adjusted, rarity>>

storeVars == <<db, bundle, fox, minttransaction>>
spinVars == <<pc, req, bonus, i, minted>>
resolverVars == <<r, adjusted, rarity>>

---------------------------------------------------------------------------
(* Bounds of the model *)

MaxDocs == 1
RGrid == 20
MaxBonusPct == 100

---------------------------------------------------------------------------
(* Program constants *)

Scale == 10000
PctUnit == Scale \div 100
MinCommon == 5000
TimeMod == 100000
PlaceholderBase == 6000
MaxSpinCount == 10
RandIntMax == 999

None == "None"

Tiers == <<"Common", "Rare", "Epic", "Legendary">>
TierSet == {Tiers[k] : k \in 1..4}

RARITY_POOL ==
  << <<"Common", 7500>>, <<"Rare", 1800>>, <<"Epic", 600>>, <<"Legendary", 100>> >>

DefaultBundlesInit ==
  << [name |-> "Starter Spin", description |-> "One spin to try your luck.",
      price_eth |-> 20, spins |-> 1, bonus_chance |-> 0, badge |-> None],
     [name |-> "Triple Play", description |-> "Three spins + slight bonus chance.",
      price_eth |-> 55, spins |-> 3, bonus_chance |-> 2, badge |-> "POPULAR"],
     [name |-> "Fox Frenzy", description |-> "Ten spins with boosted epic/legendary odds.",
      price_eth |-> 170, spins |-> 10, bonus_chance |-> 5, badge |-> "BEST VALUE"] >>

---------------------------------------------------------------------------
(* Helpers *)

Max(a, b) == IF a >= b THEN a ELSE b

Abs(n) == IF n < 0 THEN -n ELSE n

\* dict.get(key, default)
Get(d, key, default) == IF key \in DOMAIN d THEN d[key] ELSE default

\* the draws random.random() can make, on a grid of RGrid points of [0, 1)
RDomain == {(k * Scale) \div RGrid : k \in 0..(RGrid - 1)}

\* the draws the handlers are run on: the least one and one past the mass of Common
SpinDraws == {0, (4 * Scale) \div 5}

\* weighted_rarity with Epic given 0.25 of the pool: 0.05 of it is lost
AdjustedLossy(b) ==
  LET remaining_common == Max(MinCommon, RARITY_POOL[1][2] - b * PctUnit)
      bonus_pool == RARITY_POOL[1][2] - remaining_common
  IN << <<"Common", remaining_common>>,
        <<"Rare", RARITY_POOL[2][2] + (bonus_pool * 55) \div 100>>,
        <<"Epic", RARITY_POOL[3][2] + (bonus_pool * 25) \div 100>>,
        <<"Legendary", RARITY_POOL[4][2] + (bonus_pool * 15) \div 100>> >>

\* weighted_rarity without the max(0.5, ...) floor on Common
AdjustedUnclamped(b) ==
  LET remaining_common == RARITY_POOL[1][2] - b * PctUnit
      bonus_pool == RARITY_POOL[1][2] - remaining_common
  IN << <<"Common", remaining_common>>,
        <<"Rare", RARITY_POOL[2][2] + (bonus_pool * 55) \div 100>>,
        <<"Epic", RARITY_POOL[3][2] + (bonus_pool * 30) \div 100>>,
        <<"Legendary", RARITY_POOL[4][2] + (bonus_pool * 15) \div 100>> >>

\* the adjusted table of weighted_rarity
Adjusted(b) ==
  LET remaining_common == Max(MinCommon, RARITY_POOL[1][2] - b * PctUnit)
      bonus_pool == RARITY_POOL[1][2] - remaining_common
      rare == RARITY_POOL[2][2] + (bonus_pool * 55) \div 100
      epic == RARITY_POOL[3][2] + (bonus_pool * 30) \div 100
      legendary == RARITY_POOL[4][2] + (bonus_pool * 15) \div 100
  IN << <<"Common", remaining_common>>, <<"Rare", rare>>,
        <<"Epic", epic>>, <<"Legendary", legendary>> >>

\* the loop of weighted_rarity comparing with r < cum
RECURSIVE WalkStrict(_, _, _, _)
WalkStrict(t, k, cum, rr) ==
  IF k > Len(t) THEN "Common"
  ELSE IF rr < cum + t[k][2] THEN t[k][1]
  ELSE WalkStrict(t, k + 1, cum + t[k][2], rr)

\* the loop of weighted_rarity over table t from entry k on, cum accumulated so far
RECURSIVE Walk(_, _, _, _)
Walk(t, k, cum, rr) ==
  IF k > Len(t) THEN "Common"
  ELSE IF rr <= cum + t[k][2] THEN t[k][1]
  ELSE Walk(t, k + 1, cum + t[k][2], rr)

weighted_rarity(b, rr) == Walk(Adjusted(b), 1, 0, rr)

palette(rar) ==
  CASE rar = "Common" -> "#6ee7b7"
    [] rar = "Rare" -> "#60a5fa"
    [] rar = "Epic" -> "#f472b6"
    [] rar = "Legendary" -> "#f59e0b"
    [] OTHER -> "#60a5fa"

\* the data URI: the fixed scheme prefix followed by the rendered svg
svg_placeholder(token_id, rar) ==
  <<"data:image/svg+xml;utf8,", [color |-> palette(rar), token_id |-> token_id, rarity |-> rar]>>

FoxName(token_id) == <<"Fox #", token_id>>

FoxOut(token_id, name, image_url, rar, attributes) ==
  [token_id |-> token_id, name |-> name, image_url |-> image_url,
   rarity |-> rar, attributes |-> attributes]

BundleOut(d) ==
  [name |-> Get(d, "name", None),
   description |-> Get(d, "description", None),
   price_eth |-> Get(d, "price_eth", 0),
   spins |-> Get(d, "spins", 1),
   bonus_chance |-> Get(d, "bonus_chance", 0),
   badge |-> Get(d, "badge", None)]

MintAttributes == [Fur |-> "Pixel", Eyes |-> "Neon"]
PlaceholderAttributes == [Background |-> "Neon", Eyes |-> "Bright"]

---------------------------------------------------------------------------
(* Inputs *)

Min(a, b) == IF a <= b THEN a ELSE b

Wallets == {"", "0xabc"}
BundleNames == {None, "", "Triple Play", "Fox Frenzy", "Mega Pack", "No Such"}
\* counts the request validation (ge=1, le=10) lets through
Counts == {c \in {1, 2} : c >= 1 /\ c <= MaxSpinCount}
Limits == {-1, 0, 1, 2}
Jitters == {1, RandIntMax}
\* the wall clock is followed over the second in which now % TimeMod wraps
ClockStart == TimeMod - 1
ClockEnd == TimeMod
Outcomes == {"ok", "failFox", "failTx"}

\* a persisted catalog: documents of the "bundle" collection (schemas.Bundle);
\* fields with a default in the schema may be absent from a document
PersistedCatalog ==
  << [name |-> "Fox Frenzy", description |-> "Boosted.", price_eth |-> 150,
      spins |-> 10, bonus_chance |-> 30, badge |-> "HOT"],
     [name |-> "Mega Pack", price_eth |-> 500, spins |-> 5] >>

Catalogs == {<<>>, PersistedCatalog}

---------------------------------------------------------------------------
(* The document store client *)

\* create_document: the document gets its creation stamp and is appended
create_document(coll, data) ==
  Append(coll, data @@ [created_at |-> Len(coll) + 1])

get_documents(coll) == coll

\* find_one({"name": name}): <<d>> for the first matching document d, <<>> for None
RECURSIVE find_one(_, _)
find_one(coll, name) ==
  IF coll = <<>> THEN <<>>
  ELSE IF Get(Head(coll), "name", None) = name THEN <<Head(coll)>>
  ELSE find_one(Tail(coll), name)

\* cursor.sort("created_at", -1): the document with the largest stamp first
RECURSIVE SortDesc(_)
SortDesc(coll) ==
  IF coll = <<>> THEN <<>>
  ELSE LET k == CHOOSE k \in 1..Len(coll) :
                  \A j \in 1..Len(coll) : coll[j].created_at <= coll[k].created_at
           rest == [j \in 1..(Len(coll) - 1) |-> IF j < k THEN coll[j] ELSE coll[j + 1]]
       IN <<coll[k]>> \o SortDesc(rest)

\* cursor.limit(n): 0 means no limit, a negative n is a limit of -n
Limit(docs, n) ==
  IF n = 0 THEN docs ELSE SubSeq(docs, 1, Min(Abs(n), Len(docs)))

Call(fn, coll, iter, ok) == [fn |-> fn, coll |-> coll, iter |-> iter, ok |-> ok]

---------------------------------------------------------------------------
(* spin *)

\* spin without its wallet check
WalletNeverMissing(wallet) == FALSE

WalletMissing(wallet) == wallet = ""

RECURSIVE DefaultBonus(_, _)
DefaultBonus(defaults, name) ==
  IF defaults = <<>> THEN 0
  ELSE IF Head(defaults).name = name THEN Head(defaults).bonus_chance
  ELSE DefaultBonus(Tail(defaults), name)

\* the "bundle bonus" block with an except branch that only passes
ResolveBonusNoFallback(name, database, catalog, defaults, lookupOk) ==
  IF name = None \/ name = "" THEN 0
  ELSE IF database # None /\ ~lookupOk THEN 0
  ELSE LET b == IF database # None THEN find_one(catalog, name) ELSE <<>>
       IN IF b # <<>> THEN Get(b[1], "bonus_chance", 0)
          ELSE DefaultBonus(defaults, name)

\* the "bundle bonus" block of spin; lookupOk is whether find_one returns
ResolveBonus(name, database, catalog, defaults, lookupOk) ==
  IF name = None \/ name = "" THEN 0
  ELSE IF database # None /\ ~lookupOk THEN DefaultBonus(defaults, name)
  ELSE LET b == IF database # None THEN find_one(catalog, name) ELSE <<>>
       IN IF b # <<>> THEN Get(b[1], "bonus_chance", 0)
          ELSE DefaultBonus(defaults, name)

\* the calls the "bundle bonus" block makes on the store
LookupCalls(name, database, lookupOk) ==
  IF name = None \/ name = "" \/ database = None THEN <<>>
  ELSE <<Call("find_one", "bundle", 0, lookupOk)>>

TokenId(now, jitter) == (now % TimeMod) + jitter

FoxDoc(token_id, rar) ==
  [token_id |-> token_id, name |-> FoxName(token_id),
   image_url |-> svg_placeholder(token_id, rar), rarity |-> rar,
   attributes |-> MintAttributes]

TxDoc(wallet, token_id) ==
  [wallet |-> wallet, token_id |-> token_id, cost_eth |-> 20]

\* the try block of one iteration: what each collection holds afterwards
FoxAfter(coll, doc, outcome) ==
  IF outcome \in {"ok", "failTx"} THEN create_document(coll, doc) ELSE coll

\* the transaction written in a try block of its own, whatever became of the fox
TxAfterOwnTry(coll, doc, outcome) ==
  IF outcome \in {"ok", "failFox"} THEN create_document(coll, doc) ELSE coll

TxAfter(coll, doc, outcome) ==
  IF outcome = "ok" THEN create_document(coll, doc) ELSE coll

\* the calls one iteration makes on the store
IterCalls(iter, outcome) ==
  IF outcome = "failFox" THEN <<Call("create_document", "fox", iter, FALSE)>>
  ELSE <<Call("create_document", "fox", iter, TRUE),
         Call("create_document", "minttransaction", iter, outcome = "ok")>>

\* minted.append(...) as the last statement inside the try block
MintedAfterInsideTry(list, item, outcome) ==
  IF outcome = "ok" THEN Append(list, item) ELSE list

\* minted.append(...) after the try block
MintedAfter(list, item, outcome) == Append(list, item)

Idle == [wallet |-> "", count |-> 1, bundle |-> None]

SpinReject(wallet, count, name) ==
  /\ pc = "idle"
  /\ WalletMissing(wallet)
  /\ response' = [op |-> "spin", status |-> 400, body |-> <<>>,
                  wallet |-> wallet, count |-> count]
  /\ calls' = <<>>
  /\ UNCHANGED <<storeVars, DEFAULT_BUNDLES, clock, spinVars, resolverVars>>

SpinBegin(wallet, count, name, lookupOk) ==
  /\ pc = "idle"
  /\ ~WalletMissing(wallet)
  /\ req' = [wallet |-> wallet, count |-> count, bundle |-> name]
  /\ bonus' = ResolveBonus(name, db, bundle, DEFAULT_BUNDLES, lookupOk)
  /\ calls' = LookupCalls(name, db, lookupOk)
  /\ pc' = "loop"
  /\ i' = 0
  /\ minted' = <<>>
  /\ response' = [op |-> "spin", status |-> 0, body |-> <<>>,
                  wallet |-> wallet, count |-> count]
  /\ UNCHANGED <<storeVars, DEFAULT_BUNDLES, clock, resolverVars>>

\* one iteration of the minting loop; create_document raises when db is None,
\* and a store that holds MaxDocs documents of a collection refuses another
SpinIter(rr, jitter, outcome) ==
  /\ pc = "loop"
  /\ i < req.count
  /\ db = None => outcome = "failFox"
  /\ Len(fox) >= MaxDocs => outcome = "failFox"
  /\ LET rar == weighted_rarity(bonus, rr)
         token_id == TokenId(clock, jitter)
         item == FoxOut(token_id, FoxName(token_id), svg_placeholder(token_id, rar),
                        rar, MintAttributes)
     IN /\ fox' = FoxAfter(fox, FoxDoc(token_id, rar), outcome)
        /\ minttransaction' = TxAfter(minttransaction, TxDoc(req.wallet, token_id), outcome)
        /\ calls' = calls \o IterCalls(i, outcome)
        /\ minted' = MintedAfter(minted, item, outcome)
  /\ i' = i + 1
  /\ UNCHANGED <<db, bundle, DEFAULT_BUNDLES, clock, pc, req, bonus, response, resolverVars>>

SpinReturn ==
  /\ pc = "loop"
  /\ i >= req.count
  /\ response' = [op |-> "spin", status |-> 200, body |-> minted,
                  wallet |-> req.wallet, count |-> req.count]
  /\ pc' = "idle"
  /\ req' = Idle
  /\ bonus' = 0
  /\ i' = 0
  /\ minted' = <<>>
  /\ UNCHANGED <<storeVars, DEFAULT_BUNDLES, clock, calls, resolverVars>>

---------------------------------------------------------------------------
(* get_bundles *)

\* get_bundles answering a failed read with an empty list
GetBundlesBodyNoDefaults(database, catalog, defaults, readOk) ==
  IF database = None \/ ~readOk THEN <<>>
  ELSE LET docs == get_documents(catalog)
       IN IF docs = <<>> THEN defaults
          ELSE [k \in 1..Len(docs) |-> BundleOut(docs[k])]

\* the body get_bundles returns; readOk is whether get_documents returns
GetBundlesBody(database, catalog, defaults, readOk) ==
  IF database = None \/ ~readOk THEN defaults
  ELSE LET docs == get_documents(catalog)
       IN IF docs = <<>> THEN defaults
          ELSE [k \in 1..Len(docs) |-> BundleOut(docs[k])]

get_bundles(readOk) ==
  /\ pc = "idle"
  /\ db = None => ~readOk
  /\ calls' = <<Call("get_documents", "bundle", 0, readOk)>>
  /\ response' = [op |-> "get_bundles", status |-> 200,
                  body |-> GetBundlesBody(db, bundle, DEFAULT_BUNDLES, readOk)]
  /\ UNCHANGED <<storeVars, DEFAULT_BUNDLES, clock, spinVars, resolverVars>>

---------------------------------------------------------------------------
(* last_foxes *)

\* random.choices(tiers, weights)[0] for the draw rr: bisect over the
\* cumulative weights, the last tier when none exceeds the draw
RECURSIVE Bisect(_, _, _, _)
Bisect(t, k, cum, x) ==
  IF k >= Len(t) THEN t[Len(t)][1]
  ELSE IF x < cum + t[k][2] THEN t[k][1]
  ELSE Bisect(t, k + 1, cum + t[k][2], x)

Choices(rr) == Bisect(RARITY_POOL, 1, 0, rr)

FoxFromDoc(d) ==
  FoxOut(Get(d, "token_id", 0),
         Get(d, "name", FoxName(Get(d, "token_id", 0))),
         IF Get(d, "image_url", <<>>) # <<>> THEN d.image_url
         ELSE svg_placeholder(Get(d, "token_id", 0), Get(d, "rarity", "Common")),
         Get(d, "rarity", "Common"),
         Get(d, "attributes", <<>>))

\* the documents the guarded read of last_foxes yields
LastFoxesDocs(database, coll, limit, readOk) ==
  IF database # None /\ readOk THEN Limit(SortDesc(coll), limit) ELSE <<>>

Placeholder(k, rar) ==
  FoxOut(PlaceholderBase + k, FoxName(PlaceholderBase + k),
         svg_placeholder(PlaceholderBase + k, rar), rar, PlaceholderAttributes)

LastFoxesBody(docs, limit, draws) ==
  IF docs # <<>> THEN [k \in 1..Len(docs) |-> FoxFromDoc(docs[k])]
  ELSE [k \in 1..Max(limit, 0) |-> Placeholder(k - 1, Choices(draws[k]))]

last_foxes(limit, readOk) ==
  /\ pc = "idle"
  /\ db = None => readOk
  /\ LET docs == LastFoxesDocs(db, fox, limit, readOk)
         n == IF docs # <<>> THEN 0 ELSE Max(limit, 0)
     IN \E draws \in [1..n -> SpinDraws] :
          response' = [op |-> "last_foxes", status |-> 200, limit |-> limit,
                       readOk |-> readOk,
                       body |-> LastFoxesBody(docs, limit, draws)]
  /\ calls' = IF db # None THEN <<Call("find", "fox", 0, readOk)>> ELSE <<>>
  /\ UNCHANGED <<storeVars, DEFAULT_BUNDLES, clock, spinVars, resolverVars>>

---------------------------------------------------------------------------
(* The wall clock read by datetime.utcnow() *)

Tick ==
  /\ clock < ClockEnd
  /\ clock' = clock + 1
  /\ UNCHANGED <<storeVars, DEFAULT_BUNDLES, spinVars, response, calls, resolverVars>>

---------------------------------------------------------------------------
(* The service *)

Init ==
  /\ db \in {None, "Database"}
  /\ bundle \in (IF db = None THEN {<<>>} ELSE Catalogs)
  /\ fox = <<>>
  /\ minttransaction = <<>>
  /\ DEFAULT_BUNDLES = DefaultBundlesInit
  /\ clock = ClockStart
  /\ pc = "idle"
  /\ req = Idle
  /\ bonus = 0
  /\ i = 0
  /\ minted = <<>>
  /\ response = [op |-> "none", status |-> 0, body |-> <<>>]
  /\ calls = <<>>
  /\ r = 0
  /\ adjusted = <<>>
  /\ rarity = None

Next ==
  \/ \E wallet \in Wallets, count \in Counts, name \in BundleNames :
       SpinReject(wallet, count, name)
  \/ \E wallet \in Wallets, count \in Counts, name \in BundleNames, lookupOk \in BOOLEAN :
       SpinBegin(wallet, count, name, lookupOk)
  \/ \E rr \in SpinDraws, jitter \in Jitters, outcome \in Outcomes :
       SpinIter(rr, jitter, outcome)
  \/ SpinReturn
  \/ \E readOk \in BOOLEAN : get_bundles(readOk)
  \/ \E limit \in Limits, readOk \in BOOLEAN : last_foxes(limit, readOk)
  \/ Tick

Spec == Init /\ [][Next]_vars

---------------------------------------------------------------------------
(* The Rarity Resolver on its own: weighted_rarity applied to a bonus and a draw *)

BonusDomain == 0..MaxBonusPct

\* weighted_rarity(bonus) with random.random() returning r
Resolve ==
  /\ rarity = None
  /\ adjusted' = Adjusted(bonus)
  /\ rarity' = weighted_rarity(bonus, r)
  /\ UNCHANGED <<storeVars, DEFAULT_BUNDLES, clock, spinVars, response, calls, r>>

InitResolver ==
  /\ db = None
  /\ bundle = <<>>
  /\ fox = <<>>
  /\ minttransaction = <<>>
  /\ DEFAULT_BUNDLES = DefaultBundlesInit
  /\ clock = ClockStart
  /\ pc = "idle"
  /\ req = Idle
  /\ i = 0
  /\ minted = <<>>
  /\ response = [op |-> "none", status |-> 0, body |-> <<>>]
  /\ calls = <<>>
  /\ bonus \in BonusDomain
  /\ r \in RDomain
  /\ adjusted = <<>>
  /\ rarity = None

NextResolver == Resolve

SpecResolver == InitResolver /\ [][NextResolver]_vars

---------------------------------------------------------------------------
(* Properties *)

Range(f) == {f[k] : k \in DOMAIN f}

SpinAnswered == response.op = "spin" /\ response.status = 200

\* the image reference is the scheme prefix and a rendered svg, neither missing
Populated(image_url) == Len(image_url) = 2 /\ image_url[1] # ""

\* C1: a spin with a wallet returns normally with exactly count items, each of
\* a rarity among the four tiers and with a populated image reference, whatever
\* the store calls did; no failed store call cuts the loop short
C1_SpinReturnsCountItems ==
  /\ pc = "loop" => Len(minted) = i /\ i <= req.count
  /\ (response.op = "spin" /\ response.wallet # "") =>
       /\ response.status \in {0, 200}
       /\ response.status = 0 => pc = "loop"
       /\ response.status = 200 =>
            /\ Len(response.body) = response.count
            /\ \A k \in 1..Len(response.body) :
                 /\ response.body[k].rarity \in TierSet
                 /\ Populated(response.body[k].image_url)

\* a spin of two that was answered although every call on the store failed
C1_Witness ==
  /\ SpinAnswered
  /\ response.count = 2
  /\ Len(response.body) = 2
  /\ Len(calls) >= 2
  /\ \A k \in 1..Len(calls) : ~calls[k].ok

\* C2: a spin with an empty wallet is answered 400 having made no call on the
\* store, and the step that answers 400 leaves every collection as it was
C2_EmptyWalletRejected ==
  /\ [](response.op = "spin" /\ response.wallet = "" =>
          response.status = 400 /\ calls = <<>> /\ pc = "idle")
  /\ [][response'.status = 400 => UNCHANGED storeVars]_vars

\* a rejected spin on a store that already holds a fox
C2_Witness ==
  /\ response.op = "spin"
  /\ response.wallet = ""
  /\ response.status = 400
  /\ fox # <<>>

Resolved == rarity # None

Mass(t) == t[1][2] + t[2][2] + t[3][2] + t[4][2]

\* C3: for a bonus in [0, 0.25] the four adjusted probabilities sum to 1.0 and
\* Common holds 0.75 less the bonus: what leaves Common reaches the other tiers
C3_MassConserved ==
  (Resolved /\ bonus >= 0 /\ bonus <= 25) =>
     /\ Mass(adjusted) = Scale
     /\ adjusted[1][2] = 7500 - bonus * PctUnit
     /\ adjusted[2][2] + adjusted[3][2] + adjusted[4][2] = 2500 + bonus * PctUnit

\* a bonus strictly inside the range, with mass moved
C3_Witness == Resolved /\ bonus = 13 /\ adjusted[1][2] = 6200 /\ adjusted[2][2] = 2515

\* C4: for a bonus of 0.25 or more Common is pinned at 0.5 and the pool at
\* 0.25, the table and the tier drawn are those of a bonus of 0.25, and no
\* bonus removes more than 0.25 from Common
C4_Saturation ==
  Resolved =>
    /\ bonus >= 25 =>
         /\ adjusted = << <<"Common", 5000>>, <<"Rare", 3175>>,
                          <<"Epic", 1350>>, <<"Legendary", 475>> >>
         /\ rarity = weighted_rarity(25, r)
    /\ RARITY_POOL[1][2] - adjusted[1][2] <= 2500

\* a bonus far past saturation that drew Epic at 0.95
C4_Witness == bonus = 100 /\ r = 9500 /\ rarity = "Epic"

\* the cumulative mass of table t up to and including entry k
RECURSIVE CumMass(_, _)
CumMass(t, k) == IF k = 0 THEN 0 ELSE CumMass(t, k - 1) + t[k][2]

Reaching(t, x) == {k \in 1..Len(t) : CumMass(t, k) >= x}

\* C5: for a bonus in [0, 1] the tier returned is the first, in the order
\* Common, Rare, Epic, Legendary, whose cumulative mass is >= r, and Common by
\* fallback only when none is; with bonus 0 the thresholds are 0.75, 0.93,
\* 0.99 and 1.0
C5_FirstTierReachingDraw ==
  (Resolved /\ bonus >= 0 /\ bonus <= 100) =>
     /\ rarity = IF Reaching(adjusted, r) = {} THEN "Common"
                 ELSE Tiers[CHOOSE k \in Reaching(adjusted, r) :
                              \A j \in Reaching(adjusted, r) : k <= j]
     /\ bonus = 0 =>
          rarity = IF r <= 7500 THEN "Common"
                   ELSE IF r <= 9300 THEN "Rare"
                   ELSE IF r <= 9900 THEN "Epic"
                   ELSE IF r <= 10000 THEN "Legendary"
                   ELSE "Common"

\* a draw exactly on the mass of Common, which is still Common
C5_Witness == bonus = 0 /\ r = 7500 /\ rarity = "Common"

\* whether the catalog lookup of the spin in progress was made and returned
LookupReturned ==
  /\ calls # <<>>
  /\ calls[1].fn = "find_one"
  /\ calls[1].ok

First(S) == CHOOSE k \in S : \A j \in S : k <= j

\* C6: the bonus of a spin is 0 without a bundle name; the bonus_chance of the
\* persisted bundle of that name when the lookup returns one; otherwise that
\* of the default bundle of that name; and 0 when there is none
C6_BonusResolution ==
  pc = "loop" =>
    LET name == req.bundle
        persisted == {k \in 1..Len(bundle) : bundle[k].name = name}
        defaults == {k \in 1..Len(DEFAULT_BUNDLES) : DEFAULT_BUNDLES[k].name = name}
    IN bonus = IF name \in {None, ""} THEN 0
               ELSE IF LookupReturned /\ persisted # {}
                 THEN Get(bundle[First(persisted)], "bonus_chance", 0)
               ELSE IF defaults # {}
                 THEN DEFAULT_BUNDLES[First(defaults)].bonus_chance
               ELSE 0

\* a failed lookup of a bundle that is both persisted and a default one
C6_Witness ==
  /\ pc = "loop"
  /\ req.bundle = "Fox Frenzy"
  /\ bundle = PersistedCatalog
  /\ calls # <<>>
  /\ ~calls[1].ok
  /\ bonus = 5

\* C7: no two items minted carry the same token id
C7_TokenIdsUnique ==
  \A j, k \in 1..Len(minted) : j # k => minted[j].token_id # minted[k].token_id

LastFoxesAnswered == response.op = "last_foxes"

\* C8: last_foxes returns at most limit persisted items, most recent first,
\* when the read yields any, and otherwise the placeholders 6000, 6001, ...,
\* 6000 + limit - 1
C8_LastFoxes ==
  LastFoxesAnswered =>
    /\ response.status = 200
    /\ IF db # None /\ response.readOk /\ fox # <<>>
       THEN /\ Len(response.body) <= response.limit
            /\ \A k \in 1..Len(response.body) :
                 response.body[k].token_id = fox[Len(fox) + 1 - k].token_id
       ELSE /\ DOMAIN response.body = 1..response.limit
            /\ \A k \in DOMAIN response.body :
                 /\ response.body[k].token_id = PlaceholderBase + k - 1
                 /\ response.body[k].rarity \in TierSet
                 /\ response.body[k].attributes = PlaceholderAttributes

\* C9: get_bundles returns one bundle per persisted document, in stored order,
\* when the read returns a non-empty catalog, and the three default bundles
\* otherwise; the default list keeps its initial value
C9_Bundles ==
  /\ DEFAULT_BUNDLES = DefaultBundlesInit
  /\ response.op = "get_bundles" =>
       /\ response.status = 200
       /\ IF db # None /\ calls[1].ok /\ bundle # <<>>
          THEN /\ Len(response.body) = Len(bundle)
               /\ \A k \in 1..Len(bundle) :
                    /\ response.body[k].name = bundle[k].name
                    /\ response.body[k].price_eth = bundle[k].price_eth
                    /\ response.body[k].spins = bundle[k].spins
               /\ bundle = PersistedCatalog =>
                    response.body =
                      << [name |-> "Fox Frenzy", description |-> "Boosted.",
                          price_eth |-> 150, spins |-> 10, bonus_chance |-> 30,
                          badge |-> "HOT"],
                         [name |-> "Mega Pack", description |-> None,
                          price_eth |-> 500, spins |-> 5, bonus_chance |-> 0,
                          badge |-> None] >>
          ELSE /\ Len(response.body) = 3
               /\ response.body = DefaultBundlesInit

\* a failed read of a non-empty catalog, answered with the defaults
C9_Witness ==
  /\ response.op = "get_bundles"
  /\ bundle = PersistedCatalog
  /\ ~calls[1].ok
  /\ response.body = DefaultBundlesInit

\* the items of the spin in progress or just answered
SpinItems ==
  IF pc = "loop" THEN minted
  ELSE IF SpinAnswered THEN response.body
  ELSE <<>>

\* the calls of the spin that wrote a fox, in order
FoxWrites == SelectSeq(calls, LAMBDA c : c.coll = "fox" /\ c.ok)

\* C10: a transaction write is attempted only right after the fox write of the
\* same iteration succeeded; every persisted transaction has a persisted fox of
\* its token id; there are never more transactions than foxes; every fox a
\* spin persisted equals, in token id, name, image and rarity, the item of its
\* iteration in the response
C10_TransactionAfterFox ==
  /\ Len(minttransaction) <= Len(fox)
  /\ \A t \in Range(minttransaction) :
       \E f \in Range(fox) : f.token_id = t.token_id
  /\ (pc = "loop" \/ response.op = "spin") =>
       /\ \A k \in 1..Len(calls) :
            calls[k].coll = "minttransaction" =>
              /\ k > 1
              /\ calls[k - 1] = Call("create_document", "fox", calls[k].iter, TRUE)
       /\ Len(FoxWrites) <= Len(fox)
       /\ \A m \in 1..Len(FoxWrites) :
            LET f == fox[Len(fox) - Len(FoxWrites) + m]
                item == SpinItems[FoxWrites[m].iter + 1]
            IN /\ f.token_id = item.token_id
               /\ f.name = item.name
               /\ f.image_url = item.image_url
               /\ f.rarity = item.rarity

\* a spin of two whose first iteration wrote both records and whose second
\* failed on the fox
C10_Witness ==
  /\ SpinAnswered
  /\ Len(response.body) = 2
  /\ Len(minttransaction) = 1
  /\ Len(fox) = 1
  /\ Len(calls) = 3
  /\ ~calls[3].ok

====
